---------------------------- MODULE Spec2Model ----------------------------
(***************************************************************************)
(* Model of the carbon-accounting engine of calculator/formulas.py.        *)
(*                                                                         *)
(* Numbers.  The engine computes with Python floats.  A float is modelled  *)
(* as a record [k, n, d]:                                                  *)
(*   k = "fin"  the exact rational n/d (d > 0, lowest terms),              *)
(*   k = "inf"  +infinity (n = 1) or -infinity (n = -1),                   *)
(*   k = "nan"  IEEE not-a-number,                                         *)
(*   k = "err"  the expression raised (ZeroDivisionError).                 *)
(* Arithmetic on "fin" values is exact: binary rounding is not modelled,   *)
(* so an equality of the model is an equality of the real-number values of *)
(* the Python expressions.  The two exceptions are ** with a large         *)
(* exponent, cut to six decimals (Truncate), and math.exp, tabulated to    *)
(* three decimals (MathExp).  The special values follow Python: x / 0      *)
(* raises, inf * 0 is nan, every comparison with nan is false, min and max *)
(* keep their first argument unless the second compares smaller / larger.  *)
(***************************************************************************)
EXTENDS Integers, Sequences, FiniteSets, TLC

VARIABLES input, pc, loc, result, emissions

vars == <<input, pc, loc, result, emissions>>

-----------------------------------------------------------------------------
(* Python float arithmetic *)

Abs(a) == IF a < 0 THEN -a ELSE a

RECURSIVE GCD(_, _)
GCD(a, b) == IF b = 0 THEN a ELSE GCD(b, a % b)

Frac(a, b) ==
    LET g == GCD(Abs(a), b)
    IN  [k |-> "fin", n |-> a \div g, d |-> b \div g]

N(a) == [k |-> "fin", n |-> a, d |-> 1]

PosInf == [k |-> "inf", n |-> 1, d |-> 1]

NegInf == [k |-> "inf", n |-> -1, d |-> 1]

NaN == [k |-> "nan", n |-> 0, d |-> 1]

Raised == [k |-> "err", n |-> 0, d |-> 1]

IsFinite(x) == x.k = "fin"

IsZero(x) == x.k = "fin" /\ x.n = 0

Sgn(x) == IF x.n > 0 THEN 1 ELSE IF x.n < 0 THEN -1 ELSE 0

Neg(x) == [x EXCEPT !.n = -x.n]

Mul(x, y) ==
    IF x.k = "err" \/ y.k = "err" THEN Raised
    ELSE IF x.k = "nan" \/ y.k = "nan" THEN NaN
    ELSE IF x.k = "inf" \/ y.k = "inf"
         THEN IF Sgn(x) * Sgn(y) = 0 THEN NaN
              ELSE IF Sgn(x) * Sgn(y) > 0 THEN PosInf ELSE NegInf
    ELSE LET g1 == GCD(Abs(x.n), y.d)
             g2 == GCD(Abs(y.n), x.d)
         IN  Frac((x.n \div g1) * (y.n \div g2), (x.d \div g2) * (y.d \div g1))

Add(x, y) ==
    IF x.k = "err" \/ y.k = "err" THEN Raised
    ELSE IF x.k = "nan" \/ y.k = "nan" THEN NaN
    ELSE IF x.k = "inf" /\ y.k = "inf" THEN (IF x.n = y.n THEN x ELSE NaN)
    ELSE IF x.k = "inf" THEN x
    ELSE IF y.k = "inf" THEN y
    ELSE LET g == GCD(x.d, y.d)
         IN  Frac(x.n * (y.d \div g) + y.n * (x.d \div g), (x.d \div g) * y.d)

Sub(x, y) == Add(x, Neg(y))

Div(x, y) ==
    IF x.k = "err" \/ y.k = "err" THEN Raised
    ELSE IF IsZero(y) THEN Raised
    ELSE IF x.k = "nan" \/ y.k = "nan" THEN NaN
    ELSE IF y.k = "inf" THEN (IF x.k = "inf" THEN NaN ELSE N(0))
    ELSE IF y.n > 0 THEN Mul(x, [k |-> "fin", n |-> y.d, d |-> y.n])
    ELSE Mul(x, [k |-> "fin", n |-> -y.d, d |-> -y.n])

Lt(x, y) ==
    IF x.k \in {"nan", "err"} \/ y.k \in {"nan", "err"} THEN FALSE
    ELSE IF x.k = "inf" THEN x.n < 0 /\ ~(y.k = "inf" /\ y.n < 0)
    ELSE IF y.k = "inf" THEN y.n > 0
    ELSE LET g == GCD(x.d, y.d)
         IN  x.n * (y.d \div g) < y.n * (x.d \div g)

Eq(x, y) == x.k \in {"fin", "inf"} /\ x = y

Leq(x, y) == Lt(x, y) \/ Eq(x, y)

Gt(x, y) == Lt(y, x)

Geq(x, y) == Leq(y, x)

PyMax(a, b) == IF Gt(b, a) THEN b ELSE a

PyMin(a, b) == IF Lt(b, a) THEN b ELSE a

(* acc followed by the next `digits` decimal digits of r/d, for 0 <= r < d *)
RECURSIVE DecimalDigits(_, _, _, _)
DecimalDigits(acc, r, d, digits) ==
    IF digits = 0 THEN acc
    ELSE DecimalDigits(acc * 10 + ((r * 10) \div d), (r * 10) % d, d, digits - 1)

(* The rounding of a power.  A power whose exact denominator is beyond six *)
(* decimal digits is cut to six decimals: coarser than the rounding of a   *)
(* binary64, and of the same kind.  Smaller powers are exact.              *)
Truncate(x) ==
    IF x.k # "fin" \/ x.d <= 1000000 THEN x
    ELSE LET a == Abs(x.n)
             t == DecimalDigits(a \div x.d, a % x.d, x.d, 6)
         IN  Frac(IF x.n < 0 THEN -t ELSE t, 1000000)

RECURSIVE Pow(_, _)
Pow(x, e) == IF e = 0 THEN N(1) ELSE Truncate(Mul(Pow(x, e - 1), x))

-----------------------------------------------------------------------------
(* Program constants *)

TonnesPerMt == 1000000

PercentBase == 100

UtilizationCap == Frac(99999, 100)

TargetYearMin == 2025

(* EXISTING_FOREST_STATUS_OPTIONS: status -> {"factor": ...} *)
EXISTING_FOREST_STATUS_OPTIONS ==
    [mature |-> N(0), mixed |-> Frac(1, 2), active |-> N(1)]

SEQUESTRATION_DEGRADATION_RATE == Frac(1, 50)

-----------------------------------------------------------------------------
(* Emissions interpolator *)

(* mutant: a zero-length first segment collapses to its start value *)
Phase1Progress_StartValue(year, initial_year, peak_year) ==
    IF peak_year > initial_year
    THEN Div(N(year - initial_year), N(peak_year - initial_year))
    ELSE N(0)

Phase1Progress(year, initial_year, peak_year) ==
    IF peak_year > initial_year
    THEN Div(N(year - initial_year), N(peak_year - initial_year))
    ELSE N(1)

(* mutant: the second segment's progress lags one year *)
Phase2Progress_OffByOne(year, peak_year, target_year) ==
    IF target_year > peak_year
    THEN Div(N(year - peak_year - 1), N(target_year - peak_year))
    ELSE N(1)

Phase2Progress(year, peak_year, target_year) ==
    IF target_year > peak_year
    THEN Div(N(year - peak_year), N(target_year - peak_year))
    ELSE N(1)

Phase1Years(initial_year, peak_year) == initial_year .. peak_year

Phase2Years(peak_year, target_year) == (peak_year + 1) .. target_year

interpolate_emissions(initial_year, initial_value, peak_year, peak_value, target_year, target_value) ==
    [year \in Phase1Years(initial_year, peak_year)
                \cup Phase2Years(peak_year, target_year) |->
        IF year \in Phase2Years(peak_year, target_year)
        THEN Sub(peak_value,
                 Mul(Phase2Progress(year, peak_year, target_year),
                     Sub(peak_value, target_value)))
        ELSE Add(initial_value,
                 Mul(Phase1Progress(year, initial_year, peak_year),
                     Sub(peak_value, initial_value)))]

InterpolateInput(inp) ==
    interpolate_emissions(inp.initial_year, inp.emissions_initial,
                          inp.peak_year, inp.emissions_peak,
                          inp.target_year, inp.target_2050)

(* sum(emissions_by_year.values()) *)
RECURSIVE SumValues(_)
SumValues(f) ==
    IF DOMAIN f = {} THEN N(0)
    ELSE LET y == CHOOSE z \in DOMAIN f : TRUE
         IN  Add(SumValues([z \in DOMAIN f \ {y} |-> f[z]]), f[y])

-----------------------------------------------------------------------------
(* calculate_sequestration *)

Percent(x) == Div(x, N(PercentBase))

(* mutant: the span is used unclamped *)
Years_NoClamp(inp) == inp.target_year - inp.initial_year

(* years = target_year - initial_year, at least 1 *)
Years(inp) ==
    IF inp.target_year - inp.initial_year <= 0
    THEN 1
    ELSE inp.target_year - inp.initial_year

BelowGroundRate(rate, inp) ==
    IF inp.include_below_ground
    THEN Mul(rate, Add(N(1), inp.root_to_shoot_ratio))
    ELSE rate

(* mutant: the risk factor raises the rates *)
RiskDiscount_Surcharge(inp) == Add(N(1), Percent(inp.risk_factor))

RiskDiscount(inp) == Sub(N(1), Percent(inp.risk_factor))

EffectiveRate(rate, inp) == Mul(BelowGroundRate(rate, inp), RiskDiscount(inp))

ForestFraction(inp) == Percent(inp.new_planting_forest_percent)

CoastalFraction(inp) == Sub(N(1), ForestFraction(inp))

WeightedRate(inp) ==
    Add(Mul(ForestFraction(inp), EffectiveRate(inp.forest_rate, inp)),
        Mul(CoastalFraction(inp), EffectiveRate(inp.coastal_rate, inp)))

(* the rates the existing-ecosystem bases are built from *)
ExistingForestRate(inp) == EffectiveRate(inp.forest_rate, inp)

ExistingCoastalRate(inp) == EffectiveRate(inp.coastal_rate, inp)

(* EXISTING_FOREST_STATUS_OPTIONS.get(status, {}).get("factor", 0.0) *)
ExistingFactor(status) ==
    IF status \in DOMAIN EXISTING_FOREST_STATUS_OPTIONS
    THEN EXISTING_FOREST_STATUS_OPTIONS[status]
    ELSE N(0)

(* the locals of calculate_sequestration when the loop is entered *)
CalcBeginLocals(inp) ==
    LET emissions_by_year == InterpolateInput(inp)
        cumulative_emissions == SumValues(emissions_by_year)
    IN  [years |-> Years(inp),
         emissions_by_year |-> emissions_by_year,
         total_reduction |-> cumulative_emissions,
         sequestration_target |->
             Mul(cumulative_emissions, Percent(inp.sequestration_percent)),
         effective_forest_rate |-> EffectiveRate(inp.forest_rate, inp),
         effective_coastal_rate |-> EffectiveRate(inp.coastal_rate, inp),
         forest_fraction |-> ForestFraction(inp),
         coastal_fraction |-> CoastalFraction(inp),
         weighted_rate |-> WeightedRate(inp),
         forest_existing_base |->
             Mul(inp.forest_area_available, ExistingForestRate(inp)),
         coastal_existing_base |->
             Mul(inp.coastal_area_available, ExistingCoastalRate(inp)),
         degradation_rate_decimal |-> Percent(inp.degradation_rate),
         existing_factor |-> ExistingFactor(inp.existing_forest_status),
         total_existing_absorption_tonnes |-> N(0),
         total_degradation_loss_tonnes |-> N(0),
         remaining_capacity |-> N(1),
         iterations |-> 0]

(* mutant: the sink potential ignores the remaining capacity *)
AnnualSinkPotential_Undecayed(l) == Add(l.forest_existing_base, l.coastal_existing_base)

AnnualSinkPotential(l) ==
    Mul(Add(l.forest_existing_base, l.coastal_existing_base), l.remaining_capacity)

(* mutant: the degradation loss is scaled by the activity factor too *)
LoopBody_LossScaledByFactor(l) ==
    [l EXCEPT
        !.total_existing_absorption_tonnes =
            Add(@, Mul(AnnualSinkPotential(l), l.existing_factor)),
        !.total_degradation_loss_tonnes =
            Add(@, Mul(Mul(AnnualSinkPotential(l), l.degradation_rate_decimal),
                       l.existing_factor)),
        !.remaining_capacity = Mul(@, Sub(N(1), l.degradation_rate_decimal)),
        !.iterations = @ + 1]

(* one pass through the body of "for _ in range(years)" *)
LoopBody(l) ==
    [l EXCEPT
        !.total_existing_absorption_tonnes =
            Add(@, Mul(AnnualSinkPotential(l), l.existing_factor)),
        !.total_degradation_loss_tonnes =
            Add(@, Mul(AnnualSinkPotential(l), l.degradation_rate_decimal)),
        !.remaining_capacity = Mul(@, Sub(N(1), l.degradation_rate_decimal)),
        !.iterations = @ + 1]

(* mutant: one iteration too many *)
LoopContinues_OneMore(l) == l.iterations <= l.years

LoopContinues(l) == l.iterations < l.years

RECURSIVE RunLoop(_)
RunLoop(l) == IF LoopContinues(l) THEN RunLoop(LoopBody(l)) ELSE l

AdjustedSequestrationTarget(l) ==
    PyMax(N(0), Sub(Mul(l.sequestration_target, N(TonnesPerMt)),
                    l.total_existing_absorption_tonnes))

AnnualSequestrationNeeded(l) ==
    Div(Add(AdjustedSequestrationTarget(l), l.total_degradation_loss_tonnes),
        N(l.years))

(* mutant: the division is not guarded *)
TotalAreaNeeded_NoGuard(annual_sequestration_needed, weighted_rate) ==
    Div(annual_sequestration_needed, weighted_rate)

TotalAreaNeeded(annual_sequestration_needed, weighted_rate) ==
    IF Gt(weighted_rate, N(0))
    THEN Div(annual_sequestration_needed, weighted_rate)
    ELSE PosInf

(* mutant: strict comparison *)
IsFeasible_Strict(area_needed, area_available) == Lt(area_needed, area_available)

IsFeasible(area_needed, area_available) == Leq(area_needed, area_available)

(* mutant: the ratio is not turned into a percentage *)
Utilization_NoPercent(area_needed, area_available) ==
    IF Gt(area_available, N(0))
    THEN Div(area_needed, area_available)
    ELSE IF Gt(area_needed, N(0)) THEN PosInf ELSE N(0)

Utilization(area_needed, area_available) ==
    IF Gt(area_available, N(0))
    THEN Mul(Div(area_needed, area_available), N(PercentBase))
    ELSE IF Gt(area_needed, N(0)) THEN PosInf ELSE N(0)

(* mutant: the display cap is dropped *)
CapUtilization_NoCap(utilization_percent) == utilization_percent

CapUtilization(utilization_percent) == PyMin(utilization_percent, UtilizationCap)

calculate_feasibility(area_needed, area_available) ==
    [area_needed |-> area_needed,
     area_available |-> area_available,
     is_feasible |-> IsFeasible(area_needed, area_available),
     utilization_percent |->
         CapUtilization(Utilization(area_needed, area_available)),
     deficit_or_surplus |-> Sub(area_available, area_needed)]

OverallFeasible(forest_feasibility, coastal_feasibility) ==
    forest_feasibility.is_feasible /\ coastal_feasibility.is_feasible

(* the rest of calculate_sequestration, after the loop: the CalculatorResult *)
CalcResult(inp, l) ==
    LET annual_sequestration_needed == AnnualSequestrationNeeded(l)
        total_area_needed ==
            TotalAreaNeeded(annual_sequestration_needed, l.weighted_rate)
        forest_area_needed == Mul(total_area_needed, l.forest_fraction)
        coastal_area_needed == Mul(total_area_needed, l.coastal_fraction)
        forest_feasibility ==
            calculate_feasibility(forest_area_needed, inp.forest_area_available)
        coastal_feasibility ==
            calculate_feasibility(coastal_area_needed, inp.coastal_area_available)
    IN  [total_reduction_needed |-> l.total_reduction,
         sequestration_target |-> l.sequestration_target,
         years |-> l.years,
         total_area_needed |-> total_area_needed,
         forest_area_needed |-> forest_area_needed,
         coastal_area_needed |-> coastal_area_needed,
         effective_forest_rate |-> l.effective_forest_rate,
         effective_coastal_rate |-> l.effective_coastal_rate,
         weighted_average_rate |-> l.weighted_rate,
         forest_feasibility |-> forest_feasibility,
         coastal_feasibility |-> coastal_feasibility,
         overall_feasible |->
             OverallFeasible(forest_feasibility, coastal_feasibility),
         annual_sequestration_needed |-> annual_sequestration_needed,
         cumulative_sequestration |->
             Mul(l.sequestration_target, N(TonnesPerMt))]

calculate_sequestration(inp) == CalcResult(inp, RunLoop(CalcBeginLocals(inp)))

(* the float fields of a CalculatorResult *)
NumericOutputs(r) ==
    {r.total_reduction_needed, r.sequestration_target, r.total_area_needed,
     r.forest_area_needed, r.coastal_area_needed, r.effective_forest_rate,
     r.effective_coastal_rate, r.weighted_average_rate,
     r.annual_sequestration_needed, r.cumulative_sequestration}
    \cup UNION {{f.area_needed, f.area_available, f.utilization_percent,
                 f.deficit_or_surplus} :
                f \in {r.forest_feasibility, r.coastal_feasibility}}

(* the call raised instead of returning *)
HasRaised(r) == \E x \in NumericOutputs(r) : x.k = "err"

-----------------------------------------------------------------------------
(* Bounds of the model and the inputs drawn within them *)

MaxSpan == 3

AreaValues == {0, 1000000}

YearRange == TargetYearMin .. (TargetYearMin + MaxSpan)

StatusValues == {"mature", "mixed", "active"}

MakeInput(iy, py, ty, ei, ep, et, sp, fa, ca, st, fp, bg, rf, dr) ==
    [emissions_initial |-> N(ei),
     emissions_peak |-> N(ep),
     target_2050 |-> N(et),
     sequestration_percent |-> N(sp),
     initial_year |-> iy,
     peak_year |-> py,
     target_year |-> ty,
     new_planting_start_year |-> iy,
     forest_area_available |-> N(fa),
     coastal_area_available |-> N(ca),
     existing_forest_status |-> st,
     new_planting_forest_percent |-> N(fp),
     forest_rate |-> N(2),
     coastal_rate |-> N(1),
     include_below_ground |-> bg,
     root_to_shoot_ratio |-> Frac(1, 2),
     risk_factor |-> N(rf),
     degradation_rate |-> N(dr)]

(* inputs of the interpolator: every ordering of the three anchor years *)
InterpInputs ==
    {MakeInput(iy, py, ty, ei, ep, et, 60, 1000000, 1000000, "mixed", 80, FALSE, 0, 2) :
        iy \in YearRange, py \in YearRange, ty \in YearRange,
        ei \in {0, 2}, ep \in {2, 3}, et \in {0, 1}}

RiskValues == {0, 20, 50}

InputsWithRisk(risks) ==
    {MakeInput(iy, py, ty, 20, 30, 10, sp, fa, ca, st, fp, bg, rf, dr) :
        iy \in {TargetYearMin, TargetYearMin + 1},
        py \in YearRange, ty \in YearRange,
        sp \in {0, 60}, fa \in AreaValues, ca \in AreaValues, st \in StatusValues,
        fp \in {0, 50, 100}, bg \in BOOLEAN, rf \in risks,
        dr \in {0, 10}}

(* inputs of calculate_sequestration that pass the field validation *)
CalcInputs == InputsWithRisk(RiskValues)

(* the same with a risk_factor of 100 assigned after construction, which   *)
(* no validation sees (fields are assigned that way at lines 753-754)      *)
UnvalidatedInputs == InputsWithRisk(RiskValues \cup {100})

(* the Field(ge=..., le=...) constraints of CalculatorInput *)
FieldValid(inp) ==
    /\ \A x \in {inp.emissions_initial, inp.emissions_peak, inp.target_2050} :
          Geq(x, N(0)) /\ Leq(x, N(5000))
    /\ Geq(inp.sequestration_percent, N(0)) /\ Leq(inp.sequestration_percent, N(100))
    /\ \A y \in {inp.initial_year, inp.peak_year, inp.new_planting_start_year} :
          y >= 2000 /\ y <= 2100
    /\ inp.target_year >= TargetYearMin /\ inp.target_year <= 2100
    /\ Geq(inp.forest_area_available, N(0))
    /\ Geq(inp.coastal_area_available, N(0))
    /\ Geq(inp.new_planting_forest_percent, N(0))
    /\ Leq(inp.new_planting_forest_percent, N(100))
    /\ \A x \in {inp.forest_rate, inp.coastal_rate} : Geq(x, N(1)) /\ Leq(x, N(50))
    /\ Geq(inp.root_to_shoot_ratio, Frac(1, 10)) /\ Leq(inp.root_to_shoot_ratio, N(1))
    /\ Geq(inp.risk_factor, N(0)) /\ Leq(inp.risk_factor, N(50))
    /\ Geq(inp.degradation_rate, N(0)) /\ Leq(inp.degradation_rate, N(10))

-----------------------------------------------------------------------------
(* The state machine: one call of calculate_sequestration on an input *)

NoValue == "none"

Init ==
    /\ input \in CalcInputs
    /\ pc = "ready"
    /\ loc = NoValue
    /\ result = NoValue
    /\ emissions = NoValue

(* lines 202-254: everything before the loop *)
CalcBegin ==
    /\ pc = "ready"
    /\ loc' = CalcBeginLocals(input)
    /\ pc' = "loop"
    /\ UNCHANGED <<input, result, emissions>>

(* lines 256-267: one iteration of the loop *)
CalcLoopStep ==
    /\ pc = "loop"
    /\ LoopContinues(loc)
    /\ loc' = LoopBody(loc)
    /\ UNCHANGED <<input, pc, result, emissions>>

(* lines 269-321: after the loop, the CalculatorResult is returned *)
CalcReturn ==
    /\ pc = "loop"
    /\ ~LoopContinues(loc)
    /\ result' = CalcResult(input, loc)
    /\ pc' = "done"
    /\ UNCHANGED <<input, loc, emissions>>

Next == CalcBegin \/ CalcLoopStep \/ CalcReturn

Spec == Init /\ [][Next]_vars

(* The same call on inputs that bypassed the field validation *)
InitUnvalidated ==
    /\ input \in UnvalidatedInputs
    /\ pc = "ready"
    /\ loc = NoValue
    /\ result = NoValue
    /\ emissions = NoValue

SpecUnvalidated == InitUnvalidated /\ [][Next]_vars

(* The interpolator alone, on every ordering of the anchors *)
InitInterp ==
    /\ input \in InterpInputs
    /\ pc = "ready"
    /\ loc = NoValue
    /\ result = NoValue
    /\ emissions = NoValue

InterpolateCall ==
    /\ pc = "ready"
    /\ emissions' = InterpolateInput(input)
    /\ pc' = "interpolated"
    /\ UNCHANGED <<input, loc, result>>

NextInterp == InterpolateCall

SpecInterp == InitInterp /\ [][NextInterp]_vars

-----------------------------------------------------------------------------
(* Claims about the interpolator, checked under SpecInterp *)

Ordered(inp) ==
    inp.initial_year <= inp.peak_year /\ inp.peak_year <= inp.target_year

Interpolated == pc = "interpolated"

C2_PiecewiseLinear ==
    (Interpolated /\ Ordered(input)) =>
        /\ DOMAIN emissions = input.initial_year .. input.target_year
        /\ \A y \in input.initial_year .. input.peak_year :
              IF input.initial_year < input.peak_year
              THEN Mul(emissions[y], N(input.peak_year - input.initial_year)) =
                       Add(Mul(input.emissions_initial,
                               N(input.peak_year - input.initial_year)),
                           Mul(N(y - input.initial_year),
                               Sub(input.emissions_peak, input.emissions_initial)))
              ELSE emissions[y] = input.emissions_peak
        /\ \A y \in (input.peak_year + 1) .. input.target_year :
              Mul(emissions[y], N(input.target_year - input.peak_year)) =
                  Add(Mul(input.emissions_peak,
                          N(input.target_year - input.peak_year)),
                      Mul(N(y - input.peak_year),
                          Sub(input.target_2050, input.emissions_peak)))

C2_Witness ==
    /\ Interpolated
    /\ input.peak_year - input.initial_year >= 2
    /\ input.target_year > input.peak_year
    /\ input.emissions_initial # input.emissions_peak
    /\ emissions[input.initial_year + 1] # input.emissions_initial
    /\ emissions[input.initial_year + 1] # input.emissions_peak

-----------------------------------------------------------------------------
(* Claims about calculate_sequestration, checked under Spec *)

Done == pc = "done"

FeasibilityResults == {result.forest_feasibility, result.coastal_feasibility}

(* C3: in every returned CalculatorResult, for the forest and the coastal  *)
(* FeasibilityResult, is_feasible is true exactly when area_needed <=      *)
(* area_available, which is exactly when deficit_or_surplus =              *)
(* area_available - area_needed is >= 0; overall_feasible is the           *)
(* conjunction of the two flags.                                           *)
C3_FeasibilityConsistent ==
    Done =>
        /\ result.forest_feasibility.area_needed = result.forest_area_needed
        /\ result.forest_feasibility.area_available = input.forest_area_available
        /\ result.coastal_feasibility.area_needed = result.coastal_area_needed
        /\ result.coastal_feasibility.area_available = input.coastal_area_available
        /\ \A f \in FeasibilityResults :
              /\ f.is_feasible <=> Leq(f.area_needed, f.area_available)
              /\ f.deficit_or_surplus = Sub(f.area_available, f.area_needed)
              /\ f.is_feasible <=> Geq(f.deficit_or_surplus, N(0))
        /\ result.overall_feasible <=>
              (result.forest_feasibility.is_feasible
                  /\ result.coastal_feasibility.is_feasible)

C3_Witness ==
    /\ Done
    /\ result.forest_feasibility.is_feasible
    /\ Gt(result.forest_feasibility.area_needed, N(0))
    /\ ~result.coastal_feasibility.is_feasible
    /\ ~result.overall_feasible

RECURSIVE SumOver(_, _)
SumOver(f, S) ==
    IF S = {} THEN N(0)
    ELSE LET y == CHOOSE z \in S : TRUE IN Add(SumOver(f, S \ {y}), f[y])

(* 1 + q + ... + q^(n-1) *)
RECURSIVE GeometricSum(_, _)
GeometricSum(q, n) ==
    IF n = 0 THEN N(0) ELSE Add(GeometricSum(q, n - 1), Pow(q, n - 1))

C4_Years == IF input.target_year - input.initial_year >= 1
            THEN input.target_year - input.initial_year ELSE 1

C4_ExistingBase ==
    Add(Mul(input.forest_area_available, loc.effective_forest_rate),
        Mul(input.coastal_area_available, loc.effective_coastal_rate))

C4_Decay == GeometricSum(Sub(N(1), Div(input.degradation_rate, N(100))), C4_Years)

C4_Credit == Mul(Mul(C4_ExistingBase, C4_Decay), loc.existing_factor)

C4_Loss == Mul(Mul(C4_ExistingBase, C4_Decay), Div(input.degradation_rate, N(100)))

C4_TargetTonnes == Mul(result.sequestration_target, N(1000000))

C4_FromTarget ==
    /\ loc.iterations = C4_Years
    /\ loc.total_existing_absorption_tonnes = C4_Credit
    /\ loc.total_degradation_loss_tonnes = C4_Loss
    /\ result.sequestration_target =
           Div(Mul(result.total_reduction_needed, input.sequestration_percent), N(100))
    /\ result.annual_sequestration_needed =
           Div(Add(IF Gt(Sub(C4_TargetTonnes, C4_Credit), N(0))
                   THEN Sub(C4_TargetTonnes, C4_Credit) ELSE N(0),
                   C4_Loss),
               N(C4_Years))

C5_RiskLeavesExistingAlone ==
    Done =>
        \A rf \in RiskValues :
            LET other == RunLoop(CalcBeginLocals([input EXCEPT !.risk_factor = N(rf)]))
            IN  /\ other.total_existing_absorption_tonnes =
                       loc.total_existing_absorption_tonnes
                /\ other.total_degradation_loss_tonnes =
                       loc.total_degradation_loss_tonnes

(* C6: with target_year <= initial_year the call does not raise, years is  *)
(* 1, and every numeric output is finite unless the weighted new-planting  *)
(* rate is exactly 0.                                                      *)
C6_DegenerateSpan ==
    (Done /\ input.target_year <= input.initial_year) =>
        /\ ~HasRaised(result)
        /\ result.years = 1
        /\ ~IsZero(result.weighted_average_rate) =>
               \A x \in NumericOutputs(result) : IsFinite(x)

C6_Witness ==
    /\ Done
    /\ input.target_year < input.initial_year
    /\ result.years = 1
    /\ IsFinite(result.total_area_needed)
    /\ Gt(result.total_area_needed, N(0))

(* C7: when the weighted new-planting rate is 0 the call does not raise    *)
(* and returns total_area_needed = +infinity and overall_feasible = false, *)
(* for every new_planting_forest_percent, 0 and 100 included.              *)
C7_ZeroWeightedRate ==
    (Done /\ IsZero(result.weighted_average_rate)) =>
        /\ ~HasRaised(result)
        /\ result.total_area_needed = PosInf
        /\ ~result.overall_feasible

C7_Witness ==
    /\ Done
    /\ IsZero(result.weighted_average_rate)
    /\ input.new_planting_forest_percent = N(0)
    /\ result.total_area_needed = PosInf
    /\ result.forest_area_needed = NaN
    /\ ~result.overall_feasible

(* C8, as stated: in a FeasibilityResult with area_available = 0,          *)
(* utilization_percent is +infinity when area_needed > 0 and 0 otherwise.  *)
C8_UtilizationAsStated ==
    Done =>
        \A f \in FeasibilityResults :
            IsZero(f.area_available) =>
                f.utilization_percent =
                    (IF Gt(f.area_needed, N(0)) THEN PosInf ELSE N(0))

(* C8, amended: with area_available = 0 and area_needed > 0 the            *)
(* utilization is +infinity before the display cap, so the                 *)
(* FeasibilityResult holds utilization_percent = 999.99; with              *)
(* area_available = 0 and area_needed not > 0 it holds 0.                  *)
C8_Utilization ==
    Done =>
        \A f \in FeasibilityResults :
            IsZero(f.area_available) =>
                f.utilization_percent =
                    (IF Gt(f.area_needed, N(0)) THEN Frac(99999, 100) ELSE N(0))

C8_Witness ==
    /\ Done
    /\ IsZero(result.forest_feasibility.area_available)
    /\ Gt(result.forest_feasibility.area_needed, N(0))
    /\ result.forest_feasibility.utilization_percent = Frac(99999, 100)

-----------------------------------------------------------------------------
(* Cohort maturity model: calculate_maturity_factor *)

(* math.exp at the half-integers -5/2 .. 5/2, to three decimals of the     *)
(* logistic value 1/(1 + exp(x)) that is computed from it                  *)
MathExp(x) ==
    LET h == (2 * x.n) \div x.d
    IN  CASE h = 5 -> Frac(924, 76)
          [] h = 4 -> Frac(881, 119)
          [] h = 3 -> Frac(818, 182)
          [] h = 2 -> Frac(731, 269)
          [] h = 1 -> Frac(622, 378)
          [] h = 0 -> N(1)
          [] h = -1 -> Frac(378, 622)
          [] h = -2 -> Frac(269, 731)
          [] h = -3 -> Frac(182, 818)
          [] h = -4 -> Frac(119, 881)
          [] h = -5 -> Frac(76, 924)

(* mutant: the sigmoid climbs to full capacity *)
MaturitySigmoid_FullCapacity(t) ==
    Mul(N(1), Div(N(1), Add(N(1), MathExp(Mul(Frac(-1, 2), N(t - 5))))))

(* 0.8 * (1 / (1 + math.exp(-0.5 * (t - 5)))) *)
MaturitySigmoid(t) ==
    Mul(Frac(4, 5), Div(N(1), Add(N(1), MathExp(Mul(Frac(-1, 2), N(t - 5))))))

(* mutant: the linear phase counts from 1 *)
MaturityLinear_FromOne(t) ==
    Add(Frac(4, 5), Div(Mul(Frac(1, 5), N(t + 1)), N(25)))

(* 0.8 + (0.2 * t / 25) *)
MaturityLinear(t) == Add(Frac(4, 5), Div(Mul(Frac(1, 5), N(t)), N(25)))

(* (1 - SEQUESTRATION_DEGRADATION_RATE) ** years_past_maturity *)
MaturityDecay(years_past_maturity) ==
    Pow(Sub(N(1), SEQUESTRATION_DEGRADATION_RATE), years_past_maturity)

calculate_maturity_factor(years_since_planting) ==
    IF years_since_planting < 5 THEN N(0)
    ELSE IF years_since_planting < 15
         THEN MaturitySigmoid(years_since_planting - 5)
    ELSE IF years_since_planting < 40
         THEN MaturityLinear(years_since_planting - 15)
    ELSE MaturityDecay(years_since_planting - 40)

(* The maturity function alone: one call on an age, for an input whose     *)
(* degradation_rate the caller holds                                       *)
MaxAge == 45

MaturityInputs ==
    {MakeInput(TargetYearMin, TargetYearMin, TargetYearMin + 1, 20, 30, 10, 60,
               1000000, 1000000, "mixed", 50, FALSE, 0, dr) : dr \in {0, 2, 10}}

InitMaturity ==
    /\ input \in MaturityInputs
    /\ pc = "ready"
    /\ loc \in {[years_since_planting |-> n] : n \in 0 .. MaxAge}
    /\ result = NoValue
    /\ emissions = NoValue

MaturityCall ==
    /\ pc = "ready"
    /\ result' = calculate_maturity_factor(loc.years_since_planting)
    /\ pc' = "matured"
    /\ UNCHANGED <<input, loc, emissions>>

NextMaturity == MaturityCall

SpecMaturity == InitMaturity /\ [][NextMaturity]_vars

-----------------------------------------------------------------------------
(* Claims about the maturity model, checked under SpecMaturity *)

Matured == pc = "matured"

(* C12: calculate_maturity_factor(n) is 0 for every n < 5, is exactly 0.8  *)
(* at n = 15 and exactly 1.0 at n = 40.                                    *)
C12_MaturityBoundaries ==
    Matured =>
        /\ loc.years_since_planting < 5 => result = N(0)
        /\ loc.years_since_planting = 15 => result = Frac(4, 5)
        /\ loc.years_since_planting = 40 => result = N(1)

C12_Witness ==
    /\ Matured
    /\ loc.years_since_planting = 15
    /\ result = Frac(4, 5)

(* C13: calculate_maturity_factor is non-decreasing over the integer years *)
(* 0..40, the joins 4->5, 14->15 and 39->40 included, and its value lies   *)
(* in [0, 1] for every years_since_planting >= 0.                          *)
C13_MaturityMonotone ==
    Matured =>
        /\ Geq(result, N(0)) /\ Leq(result, N(1))
        /\ loc.years_since_planting < 40 =>
               Leq(result, calculate_maturity_factor(loc.years_since_planting + 1))

C13_Witness ==
    /\ Matured
    /\ loc.years_since_planting = 14
    /\ Gt(result, N(0))
    /\ Lt(result, calculate_maturity_factor(15))

(* C14: for years_since_planting >= 40 the maturity factor equals          *)
(* (1 - d)^(years_since_planting - 40) with d the input's                  *)
(* degradation_rate / 100, the rate of the existing-ecosystem decay.       *)
C14_DecayUsesInputRate ==
    (Matured /\ loc.years_since_planting >= 40) =>
        result = Pow(Sub(N(1), Div(input.degradation_rate, N(100))),
                     loc.years_since_planting - 40)

-----------------------------------------------------------------------------
(* Existing-ecosystem decay model *)

(* A call either returns a value or raises: raised names the exception,    *)
(* "" when the call returned.                                              *)
Returned(v) == [raised |-> "", value |-> v]

RaisedException(name) == [raised |-> name, value |-> NoValue]

(* mutant: the decay is linear in the years *)
calculate_existing_forest_degradation_Linear(base_rate, years_from_start, activity_factor, degradation_rate) ==
    Mul(Mul(base_rate, activity_factor),
        Sub(N(1), Mul(degradation_rate, N(years_from_start))))

calculate_existing_forest_degradation(base_rate, years_from_start, activity_factor, degradation_rate) ==
    Mul(Mul(base_rate, activity_factor),
        Pow(Sub(N(1), degradation_rate), years_from_start))

(* lines 120-129: below-ground factor, then risk discount *)
SeriesEffectiveRate(rate, include_below_ground, root_to_shoot_ratio, risk_factor) ==
    Mul(IF include_below_ground
        THEN Mul(rate, Add(N(1), root_to_shoot_ratio))
        ELSE rate,
        Sub(N(1), Div(risk_factor, N(100))))

(* lines 134-151: the entry of one year *)
SeriesEntry(forest_area, coastal_area, eff_forest_rate, eff_coastal_rate, activity_factor, years_elapsed, degradation_rate) ==
    Div(Add(Mul(forest_area,
                calculate_existing_forest_degradation(
                    eff_forest_rate, years_elapsed, activity_factor, degradation_rate)),
            Mul(coastal_area,
                calculate_existing_forest_degradation(
                    eff_coastal_rate, years_elapsed, activity_factor, degradation_rate))),
        N(TonnesPerMt))

(* years[0] of an empty list raises IndexError *)
calculate_existing_forest_sequestration_series(forest_area, coastal_area, forest_rate, coastal_rate, activity_factor, years, degradation_rate, include_below_ground, root_to_shoot_ratio, risk_factor) ==
    IF Len(years) = 0 THEN RaisedException("IndexError")
    ELSE LET eff_forest_rate ==
                 SeriesEffectiveRate(forest_rate, include_below_ground,
                                     root_to_shoot_ratio, risk_factor)
             eff_coastal_rate ==
                 SeriesEffectiveRate(coastal_rate, include_below_ground,
                                     root_to_shoot_ratio, risk_factor)
             base_year == years[1]
         IN  Returned([i \in 1 .. Len(years) |->
                 SeriesEntry(forest_area, coastal_area, eff_forest_rate,
                             eff_coastal_rate, activity_factor,
                             years[i] - base_year, degradation_rate)])

(* EXISTING_FOREST_STATUS_OPTIONS.get(status, {}).get("factor", 0.5) *)
ChartActivityFactor(status) ==
    IF status \in DOMAIN EXISTING_FOREST_STATUS_OPTIONS
    THEN EXISTING_FOREST_STATUS_OPTIONS[status]
    ELSE Frac(1, 2)

(* list(range(first, last + 1)) *)
YearList(first, last) ==
    IF last < first THEN <<>> ELSE [i \in 1 .. (last - first + 1) |-> first + i - 1]

(* lines 370-381: the series as generate_all_chart_data asks for it *)
ExistingSeriesOf(inp, years) ==
    calculate_existing_forest_sequestration_series(
        inp.forest_area_available, inp.coastal_area_available,
        inp.forest_rate, inp.coastal_rate,
        ChartActivityFactor(inp.existing_forest_status), years,
        Div(inp.degradation_rate, N(100)),
        inp.include_below_ground, inp.root_to_shoot_ratio, inp.risk_factor)

(* The series alone: one call on the arguments an input gives it and a     *)
(* list of consecutive years                                               *)
SeriesInputs ==
    {MakeInput(TargetYearMin, TargetYearMin, TargetYearMin + 1, 20, 30, 10, 60,
               fa, ca, st, 50, bg, rf, dr) :
        fa \in AreaValues, ca \in AreaValues, st \in StatusValues,
        bg \in BOOLEAN, rf \in {0, 20}, dr \in {0, 2, 10}}

InitSeries ==
    /\ input \in SeriesInputs
    /\ pc = "ready"
    /\ loc \in {[years |-> YearList(TargetYearMin, last)] :
                   last \in (TargetYearMin - 1) .. (TargetYearMin + MaxSpan)}
    /\ result = NoValue
    /\ emissions = NoValue

SeriesCall ==
    /\ pc = "ready"
    /\ result' = ExistingSeriesOf(input, loc.years)
    /\ pc' = "series"
    /\ UNCHANGED <<input, loc, emissions>>

NextSeries == SeriesCall

SpecSeries == InitSeries /\ [][NextSeries]_vars

-----------------------------------------------------------------------------
(* Claims about the decay model, checked under SpecSeries *)

SeriesReturned == pc = "series" /\ result.raised = ""

C11_Factor == ChartActivityFactor(input.existing_forest_status)

C11_Decimal == Div(input.degradation_rate, N(100))

(* rate(n) = base_rate * activity_factor * (1 - degradation_rate)^n *)
C11_Rate(base_rate, n) ==
    Mul(Mul(base_rate, C11_Factor), Pow(Sub(N(1), C11_Decimal), n))

C11_Base(rate) ==
    SeriesEffectiveRate(rate, input.include_below_ground,
                        input.root_to_shoot_ratio, input.risk_factor)

(* C11: the i-th entry of the series is (forest_area * forest_rate(n) +    *)
(* coastal_area * coastal_rate(n)) / 1e6 with rate(n) = base_rate *        *)
(* activity_factor * (1 - degradation_rate)^n and n counted from the first *)
(* year of the list; the series is non-increasing when degradation_rate >  *)
(* 0, constant when degradation_rate = 0, all zero when activity_factor =  *)
(* 0.                                                                      *)
C11_DecaySeries ==
    SeriesReturned =>
        LET series == result.value
        IN  /\ Len(series) = Len(loc.years)
            /\ \A i \in 1 .. Len(series) :
                  series[i] =
                      Div(Add(Mul(input.forest_area_available,
                                  C11_Rate(C11_Base(input.forest_rate), i - 1)),
                              Mul(input.coastal_area_available,
                                  C11_Rate(C11_Base(input.coastal_rate), i - 1))),
                          N(1000000))
            /\ \A i \in 1 .. (Len(series) - 1) :
                  /\ Gt(C11_Decimal, N(0)) => Leq(series[i + 1], series[i])
                  /\ IsZero(C11_Decimal) => series[i + 1] = series[i]
            /\ IsZero(C11_Factor) => \A i \in 1 .. Len(series) : IsZero(series[i])

C11_Witness ==
    /\ SeriesReturned
    /\ Len(result.value) >= 3
    /\ Gt(C11_Decimal, N(0))
    /\ Lt(result.value[3], result.value[2])
    /\ Lt(result.value[2], result.value[1])

-----------------------------------------------------------------------------
(* Chart data: generate_all_chart_data and _generate_new_planting_chart_data *)

ProjectionYears == 50

(* Optional[int]: None is the empty tuple, a year y the tuple <<y>> *)
None == <<>>

Some(y) == <<y>>

(* mutant: the sign of the value is kept *)
AbsNum_Signed(x) == x

(* abs(x) and -x of a float *)
AbsNum(x) == IF x.k \in {"fin", "inf"} /\ x.n < 0 THEN Neg(x) ELSE x

(* the list of running sums of a list, added up from 0 *)
RECURSIVE SumPrefix(_, _)
SumPrefix(seq, i) == IF i = 0 THEN N(0) ELSE Add(SumPrefix(seq, i - 1), seq[i])

RunningSums(seq) == [i \in 1 .. Len(seq) |-> SumPrefix(seq, i)]

(* seq[-1] of a non-empty list *)
Last(seq) == seq[Len(seq)]

(* emissions_by_year.get(y, default) *)
DictGet(dict, y, default) == IF y \in DOMAIN dict THEN dict[y] ELSE default

(* data_points_map.get(y): a later key of the dict literal replaces an     *)
(* equal earlier one                                                       *)
SparseDataPoint(inp, y) ==
    IF y = inp.target_year THEN inp.target_2050
    ELSE IF y = inp.peak_year THEN inp.emissions_peak
    ELSE IF y = inp.initial_year THEN inp.emissions_initial
    ELSE NoValue

(* lines 359-433: charts 1 to 3 *)
ChartsBeginLocals(inp) ==
    LET activity_factor == ChartActivityFactor(inp.existing_forest_status)
        years == YearList(inp.initial_year, inp.target_year)
        series == ExistingSeriesOf(inp, years)
        emissions_by_year == InterpolateInput(inp)
        interpolated_emissions ==
            [i \in 1 .. Len(years) |-> DictGet(emissions_by_year, years[i], N(0))]
        negated_existing ==
            [i \in 1 .. Len(years) |-> Neg(series.value[i])]
    IN  IF series.raised # "" THEN series
        ELSE Returned(
            [activity_factor |-> activity_factor,
             emissions_by_year |-> emissions_by_year,
             chart1 |-> [years |-> years,
                         total_sequestration_mt |-> series.value,
                         base_rate |-> Div(Add(inp.forest_rate, inp.coastal_rate), N(2)),
                         activity_factor |-> activity_factor],
             chart2 |-> [years |-> years,
                         sparse_data_points |->
                             [i \in 1 .. Len(years) |-> SparseDataPoint(inp, years[i])],
                         data_point_years |->
                             <<inp.initial_year, inp.peak_year, inp.target_year>>,
                         data_point_values |->
                             <<inp.emissions_initial, inp.emissions_peak, inp.target_2050>>,
                         interpolated_emissions |-> interpolated_emissions,
                         policy_target_line |->
                             [i \in 1 .. Len(years) |->
                                 Mul(interpolated_emissions[i],
                                     Div(inp.sequestration_percent, N(100)))]],
             chart3 |-> [years |-> years,
                         gross_emissions |-> interpolated_emissions,
                         existing_forest_sequestration |-> negated_existing,
                         net_balance |->
                             [i \in 1 .. Len(years) |->
                                 Add(interpolated_emissions[i], negated_existing[i])]]])

(* lines 551-555: the weighted rate of the new plantings *)
NewPlantingWeightedRate(inp) ==
    LET forest_share == Div(inp.new_planting_forest_percent, N(100))
        mixed == Add(Mul(forest_share, inp.forest_rate),
                     Mul(Sub(N(1), forest_share), inp.coastal_rate))
        risked == Mul(mixed, Sub(N(1), Div(inp.risk_factor, N(100))))
    IN  IF inp.include_below_ground
        THEN Mul(risked, Add(N(1), inp.root_to_shoot_ratio))
        ELSE risked

(* annual_planting[y_idx] * weighted_rate * maturity / 1_000_000 *)
CohortContribution(area, weighted_rate, years_since) ==
    Div(Mul(Mul(area, weighted_rate), calculate_maturity_factor(years_since)),
        N(TonnesPerMt))

(* lines 562-568 and 588-595: the contributions, in `year`, of the cohorts *)
(* planted in years[1..upto] that lie in the planting window               *)
RECURSIVE AnnualNewContribution(_, _, _, _, _, _)
AnnualNewContribution(years, annual_planting, weighted_rate, new_planting_start, year, upto) ==
    IF upto = 0 THEN N(0)
    ELSE LET before == AnnualNewContribution(years, annual_planting, weighted_rate,
                                             new_planting_start, year, upto - 1)
         IN  IF years[upto] >= new_planting_start /\ year - years[upto] >= 0
             THEN Add(before, CohortContribution(annual_planting[upto], weighted_rate,
                                                 year - years[upto]))
             ELSE before

(* total_area_target / num_years if num_years > 0 else 0 *)
AnnualInstallment(total_area_target, num_years) ==
    IF num_years > 0 THEN Div(total_area_target, N(num_years)) ELSE N(0)

(* mutant: the gap leaves the new plantings' sequestration out *)
SequestrationGap_WithoutNew(target, existing, new) == PyMax(N(0), Sub(target, existing))

(* max(0, target_emission_reduction - cumulative_existing - cumulative_new) *)
SequestrationGap(target, existing, new) ==
    PyMax(N(0), Sub(Sub(target, existing), new))

(* mutant: the target only counts as reached when it is exceeded *)
TargetAchieved_Strict(target, existing, new) == Gt(Add(existing, new), target)

(* (cumulative_existing + cumulative_new) >= target_emission_reduction *)
TargetAchieved(target, existing, new) == Geq(Add(existing, new), target)

(* lines 498-580: _generate_new_planting_chart_data up to the projection *)
PlantingBeginLocals(inp, emission_chart, balance_chart) ==
    LET main_res == calculate_sequestration(inp)
        total_area_target == main_res.total_area_needed
        years == emission_chart.years
        new_planting_start == inp.new_planting_start_year
        target_year == inp.target_year
        InWindow(y) == y >= new_planting_start /\ y <= target_year
        num_years == Cardinality({i \in 1 .. Len(years) : InWindow(years[i])})
        annual_installment == AnnualInstallment(total_area_target, num_years)
        abs_existing_seq ==
            [i \in 1 .. Len(years) |->
                AbsNum(balance_chart.existing_forest_sequestration[i])]
        sequestration_policy_pct == Div(inp.sequestration_percent, N(100))
        cumulative_target ==
            RunningSums([i \in 1 .. Len(years) |->
                Mul(emission_chart.interpolated_emissions[i], sequestration_policy_pct)])
        cumulative_existing == RunningSums(abs_existing_seq)
        annual_planting ==
            [i \in 1 .. Len(years) |->
                IF InWindow(years[i]) THEN annual_installment ELSE N(0)]
        cumulative_planted == RunningSums(annual_planting)
        target_emission_reduction ==
            IF Len(cumulative_target) > 0 THEN Last(cumulative_target) ELSE N(0)
        weighted_rate == NewPlantingWeightedRate(inp)
        annual_new_seq_mt ==
            [i \in 1 .. Len(years) |->
                AnnualNewContribution(years, annual_planting, weighted_rate,
                                      new_planting_start, years[i], i)]
        cumulative_new_seq == RunningSums(annual_new_seq_mt)
        is_target_achieved ==
            TargetAchieved(target_emission_reduction, Last(cumulative_existing),
                           Last(cumulative_new_seq))
    IN  [main_res |-> main_res,
         years |-> years,
         nominal_years |-> Len(years),
         annual_planting |-> annual_planting,
         cumulative_planted |-> cumulative_planted,
         total_planted |-> Last(cumulative_planted),
         cumulative_existing |-> cumulative_existing,
         target_emission_reduction |-> target_emission_reduction,
         weighted_rate |-> weighted_rate,
         annual_new_seq_mt |-> annual_new_seq_mt,
         cumulative_new_seq |-> cumulative_new_seq,
         running_new |-> Last(cumulative_new_seq),
         cumulative_gap |->
             [i \in 1 .. Len(years) |->
                 SequestrationGap(target_emission_reduction, cumulative_existing[i],
                                  cumulative_new_seq[i])],
         is_target_achieved |-> is_target_achieved,
         target_reached_year |-> IF is_target_achieved THEN Some(target_year) ELSE None,
         projected |-> 0]

(* mutant: the range of projected years is one year too long *)
ProjectionContinues_OneMore(l) == ~l.is_target_achieved /\ l.projected <= ProjectionYears

(* lines 583-584 and 607-610: the projection loop is entered or goes on *)
ProjectionContinues(l) == ~l.is_target_achieved /\ l.projected < ProjectionYears

(* mutant: a projected year gets no annual_planting entry *)
ProjectionBody_NoPlantingEntry(inp, l) ==
    LET proj_year == inp.target_year + l.projected + 1
        annual_new_cont ==
            AnnualNewContribution(l.years, l.annual_planting, l.weighted_rate,
                                  inp.new_planting_start_year, proj_year,
                                  l.nominal_years)
        running_new == Add(l.running_new, annual_new_cont)
        reached == TargetAchieved(l.target_emission_reduction,
                                  Last(l.cumulative_existing), running_new)
    IN  [l EXCEPT
            !.years = Append(@, proj_year),
            !.running_new = running_new,
            !.annual_new_seq_mt = Append(@, annual_new_cont),
            !.cumulative_new_seq = Append(@, running_new),
            !.cumulative_gap =
                Append(@, SequestrationGap(l.target_emission_reduction,
                                           Last(l.cumulative_existing), running_new)),
            !.cumulative_planted = Append(@, l.total_planted),
            !.target_reached_year = IF reached THEN Some(proj_year) ELSE @,
            !.is_target_achieved = reached,
            !.projected = @ + 1]

(* lines 585-610: one projected year *)
ProjectionBody(inp, l) ==
    LET proj_year == inp.target_year + l.projected + 1
        annual_new_cont ==
            AnnualNewContribution(l.years, l.annual_planting, l.weighted_rate,
                                  inp.new_planting_start_year, proj_year,
                                  l.nominal_years)
        running_new == Add(l.running_new, annual_new_cont)
        reached == TargetAchieved(l.target_emission_reduction,
                                  Last(l.cumulative_existing), running_new)
    IN  [l EXCEPT
            !.years = Append(@, proj_year),
            !.running_new = running_new,
            !.annual_new_seq_mt = Append(@, annual_new_cont),
            !.cumulative_new_seq = Append(@, running_new),
            !.cumulative_gap =
                Append(@, SequestrationGap(l.target_emission_reduction,
                                           Last(l.cumulative_existing), running_new)),
            !.annual_planting = Append(@, N(0)),
            !.cumulative_planted = Append(@, l.total_planted),
            !.target_reached_year = IF reached THEN Some(proj_year) ELSE @,
            !.is_target_achieved = reached,
            !.projected = @ + 1]

RECURSIVE RunProjection(_, _)
RunProjection(inp, l) ==
    IF ProjectionContinues(l) THEN RunProjection(inp, ProjectionBody(inp, l)) ELSE l

(* lines 612-621: the NewPlantingChartData *)
NewPlantingChartData(l) ==
    [years |-> l.years,
     annual_planting_area |-> l.annual_planting,
     cumulative_planted_area |-> l.cumulative_planted,
     cumulative_sequestration_gap |-> l.cumulative_gap,
     target_reached_year |-> l.target_reached_year,
     target_emission_reduction |-> l.target_emission_reduction,
     is_target_achieved |-> l.is_target_achieved,
     annual_new_sequestration_mt |-> l.annual_new_seq_mt]

(* lines 438-485: figure 6 and the AllChartData *)
AllChartData(inp, c, chart4) ==
    LET new_sinks_negated ==
            [i \in 1 .. Len(chart4.annual_new_sequestration_mt) |->
                Neg(chart4.annual_new_sequestration_mt[i])]
        fig6_existing == ExistingSeriesOf(inp, chart4.years)
        fig6_existing_negated ==
            [i \in 1 .. Len(fig6_existing.value) |-> Neg(fig6_existing.value[i])]
        fig6_emissions ==
            [i \in 1 .. Len(chart4.years) |->
                DictGet(c.emissions_by_year, chart4.years[i],
                        DictGet(c.emissions_by_year, inp.target_year, N(0)))]
    IN  IF fig6_existing.raised # "" THEN fig6_existing
        ELSE Returned(
            [existing_forest_sequestration |-> c.chart1,
             gross_emissions |-> c.chart2,
             carbon_balance |-> c.chart3,
             new_planting |-> chart4,
             net_zero_balance |->
                 [years |-> chart4.years,
                  gross_emissions |-> fig6_emissions,
                  existing_forest_sequestration |-> fig6_existing_negated,
                  new_planting_sequestration |-> new_sinks_negated,
                  net_balance |->
                      [i \in 1 .. Len(chart4.years) |->
                          Add(Add(fig6_emissions[i], fig6_existing_negated[i]),
                              new_sinks_negated[i])]]])

generate_new_planting_chart_data(inp, emission_chart, balance_chart) ==
    NewPlantingChartData(
        RunProjection(inp, PlantingBeginLocals(inp, emission_chart, balance_chart)))

generate_all_chart_data(inp) ==
    LET c == ChartsBeginLocals(inp)
    IN  IF c.raised # "" THEN c
        ELSE AllChartData(inp, c.value,
                 generate_new_planting_chart_data(inp, c.value.chart2, c.value.chart3))

(* Inputs of the charts: they pass the field validation, which leaves the  *)
(* order of the years free                                                 *)
ChartSpan == 2

ChartInputs ==
    {[MakeInput(iy, py, ty, 20, 30, 10, sp, fa, 1000000, st, 50, FALSE, rf, dr)
         EXCEPT !.new_planting_start_year = sy] :
        iy \in {TargetYearMin, TargetYearMin + 1},
        py \in {TargetYearMin, TargetYearMin + 2},
        ty \in TargetYearMin .. (TargetYearMin + ChartSpan),
        sy \in {TargetYearMin, TargetYearMin + 1, TargetYearMin + ChartSpan + 1},
        sp \in {0, 60}, fa \in AreaValues, st \in StatusValues,
        rf \in {0, 20}, dr \in {0, 10}}

(* One call of generate_all_chart_data on an input *)
InitCharts ==
    /\ input \in ChartInputs
    /\ pc = "ready"
    /\ loc = NoValue
    /\ result = NoValue
    /\ emissions = NoValue

(* lines 359-433; an exception ends the call *)
ChartsBegin ==
    /\ pc = "ready"
    /\ LET c == ChartsBeginLocals(input)
       IN  IF c.raised # ""
           THEN /\ result' = c
                /\ pc' = "raised"
                /\ UNCHANGED loc
           ELSE /\ loc' = [charts |-> c.value, planting |-> NoValue]
                /\ pc' = "planting"
                /\ UNCHANGED result
    /\ UNCHANGED <<input, emissions>>

(* line 436, lines 498-580 *)
PlantingBegin ==
    /\ pc = "planting"
    /\ loc' = [loc EXCEPT !.planting =
                  PlantingBeginLocals(input, loc.charts.chart2, loc.charts.chart3)]
    /\ pc' = "projection"
    /\ UNCHANGED <<input, result, emissions>>

(* lines 583-610: one projected year *)
ProjectionStep ==
    /\ pc = "projection"
    /\ ProjectionContinues(loc.planting)
    /\ loc' = [loc EXCEPT !.planting = ProjectionBody(input, @)]
    /\ UNCHANGED <<input, pc, result, emissions>>

(* lines 612-621 and 438-485 *)
ChartsReturn ==
    /\ pc = "projection"
    /\ ~ProjectionContinues(loc.planting)
    /\ result' = AllChartData(input, loc.charts, NewPlantingChartData(loc.planting))
    /\ pc' = IF result'.raised # "" THEN "raised" ELSE "done"
    /\ UNCHANGED <<input, loc, emissions>>

NextCharts == ChartsBegin \/ PlantingBegin \/ ProjectionStep \/ ChartsReturn

SpecCharts == InitCharts /\ [][NextCharts]_vars

-----------------------------------------------------------------------------
(* Claims about the charts, checked under SpecCharts *)

ChartsDone == pc = "done"

ChartsRaised == pc = "raised"

NewPlanting == result.value.new_planting

(* C15: for every field-valid input with target_year <= initial_year,      *)
(* generate_all_chart_data does not raise and returns an AllChartData with *)
(* all five charts.                                                        *)
C15_ChartsNeverRaise ==
    (input.target_year <= input.initial_year /\ FieldValid(input)) =>
        /\ ~ChartsRaised
        /\ ChartsDone =>
               DOMAIN result.value =
                   {"existing_forest_sequestration", "gross_emissions",
                    "carbon_balance", "new_planting", "net_zero_balance"}

(* the index of a year in the chart's list of consecutive years *)
IndexOfYear(y) == y - input.initial_year + 1

InPlantingWindow(y) ==
    y >= input.new_planting_start_year /\ y <= input.target_year

(* C16: annual_planting_area is one and the same value in every year of    *)
(* [new_planting_start_year, target_year] and 0 in every other year, and   *)
(* the final cumulative_planted_area equals                                *)
(* calculate_sequestration(input).total_area_needed, for every input.      *)
C16_PlantingSpread ==
    ChartsDone =>
        LET years == NewPlanting.years
            area == NewPlanting.annual_planting_area
        IN  /\ \A i, j \in 1 .. Len(years) :
                  (InPlantingWindow(years[i]) /\ InPlantingWindow(years[j]))
                      => area[i] = area[j]
            /\ \A i \in 1 .. Len(years) :
                  ~InPlantingWindow(years[i]) => IsZero(area[i])
            /\ Last(NewPlanting.cumulative_planted_area) =
                   calculate_sequestration(input).total_area_needed

ReachedYearSet == ChartsDone /\ NewPlanting.target_reached_year # None

ReachedYear == NewPlanting.target_reached_year[1]

GapAt(y) == NewPlanting.cumulative_sequestration_gap[IndexOfYear(y)]

-----------------------------------------------------------------------------
(* Pathway validation: validate_net_zero_pathway *)

PathwayTolerance == 50

(* mutant: a gap of exactly the tolerance still counts as valid *)
IsValidPathway_Inclusive(gap) == Leq(AbsNum(gap), N(PathwayTolerance))

(* abs(gap) < 50 *)
IsValidPathway(gap) == Lt(AbsNum(gap), N(PathwayTolerance))

(* the tuple (is_valid, gap, expected_seq, final_sinks); [-1] and [0] of   *)
(* an empty list raise IndexError                                          *)
validate_net_zero_pathway(roadmap_data, sequestration_percent) ==
    IF \/ Len(roadmap_data.emissions) = 0
       \/ Len(roadmap_data.existing_sink) = 0
       \/ Len(roadmap_data.new_sink) = 0
    THEN RaisedException("IndexError")
    ELSE LET final_emissions == Last(roadmap_data.emissions)
             initial_emissions == roadmap_data.emissions[1]
             final_existing == AbsNum(Last(roadmap_data.existing_sink))
             final_new == AbsNum(Last(roadmap_data.new_sink))
             final_sinks == Add(final_existing, final_new)
             total_reduction == Sub(initial_emissions, final_emissions)
             expected_seq == Mul(total_reduction, Div(sequestration_percent, N(100)))
             gap == Sub(expected_seq, final_sinks)
         IN  Returned(<<IsValidPathway(gap), gap, expected_seq, final_sinks>>)

(* Roadmaps of one or two years and a sequestration share *)
RoadmapSeries(first, last, two_years) ==
    IF two_years THEN <<N(first), N(last)>> ELSE <<N(last)>>

ValidateInputs ==
    {[roadmap_data |->
          [emissions |-> RoadmapSeries(e0, e1, two),
           existing_sink |-> RoadmapSeries(0, x1, two),
           new_sink |-> RoadmapSeries(0, n1, two)],
      sequestration_percent |-> N(sp)] :
        e0 \in {100, 130}, e1 \in {10, 50}, x1 \in {0, -4, -10},
        n1 \in {0, -6, -65}, sp \in {50, 60}, two \in BOOLEAN}

InitValidate ==
    /\ input \in ValidateInputs
    /\ pc = "ready"
    /\ loc = NoValue
    /\ result = NoValue
    /\ emissions = NoValue

ValidateCall ==
    /\ pc = "ready"
    /\ result' = validate_net_zero_pathway(input.roadmap_data,
                                           input.sequestration_percent)
    /\ pc' = "validated"
    /\ UNCHANGED <<input, loc, emissions>>

NextValidate == ValidateCall

SpecValidate == InitValidate /\ [][NextValidate]_vars

-----------------------------------------------------------------------------
(* Claims about the validation, checked under SpecValidate *)

Validated == pc = "validated" /\ result.raised = ""

C19_Expected ==
    Div(Mul(Sub(input.roadmap_data.emissions[1], Last(input.roadmap_data.emissions)),
            input.sequestration_percent),
        N(100))

C19_Actual ==
    Add(AbsNum(Last(input.roadmap_data.existing_sink)),
        AbsNum(Last(input.roadmap_data.new_sink)))

C19_Values ==
    /\ result.value[3] = C19_Expected
    /\ result.value[4] = C19_Actual
    /\ result.value[2] = Sub(C19_Expected, C19_Actual)

-----------------------------------------------------------------------------
(* Multi-risk chart data: generate_multi_risk_data *)

RISK_SCENARIOS ==
    <<[name |-> "Optimistic", risk_factor |-> 0, color |-> "#43A047"],
      [name |-> "Moderate", risk_factor |-> 20, color |-> "#FB8C00"],
      [name |-> "Pessimistic", risk_factor |-> 40, color |-> "#E53935"]>>

(* the names constants.py defines that the functions below import *)
ConstantsModule ==
    {"INDONESIA_FOREST_AREA", "INDONESIA_COASTAL_AREA", "DEFAULT_EMISSIONS_INITIAL",
     "DEFAULT_EMISSIONS_PEAK", "DEFAULT_TARGET_2050", "SEQUESTRATION_DEGRADATION_RATE",
     "EXISTING_FOREST_STATUS_OPTIONS", "MATURITY_PHASES"}

(* from .constants import (...): ImportError unless every name is defined *)
ImportsResolve(names) == names \subseteq ConstantsModule

(* obj.name: AttributeError unless the model has the field *)
HasAttr(obj, name) == name \in DOMAIN obj

(* input.model_copy() followed by the assignment of risk_factor *)
WithRisk(base_input, risk_factor) == [base_input EXCEPT !.risk_factor = N(risk_factor)]

(* lines 835-839: the import names DEFAULT_EMISSIONS_2023, which            *)
(* constants.py does not define, so the call raises at its first statement; *)
(* line 863 reads forest_percent, which no CalculatorInput has. The rest of *)
(* the body (lines 864-936) runs for no input.                              *)
RoadmapImports == {"DEFAULT_EMISSIONS_2023", "INDONESIA_FOREST_AREA", "INDONESIA_COASTAL_AREA"}

calculate_net_zero_roadmap(input_params, result_moderate) ==
    CASE ~ImportsResolve(RoadmapImports) -> RaisedException("ImportError")
      [] ImportsResolve(RoadmapImports) /\ ~HasAttr(input_params, "forest_percent") ->
             RaisedException("AttributeError")

(* i / max(total_years, 1) for the i-th year, counted from 0 *)
ScenarioProgress(i, total_years) == Frac(i, IF total_years > 1 THEN total_years ELSE 1)

(* lines 759-786: the trajectories and the RiskScenarioData of a scenario  *)
(* whose calculate_sequestration result is res                             *)
RiskScenarioData(base_input, risk_scenario, res) ==
    IF HasRaised(res) THEN RaisedException("ZeroDivisionError")
    ELSE IF ~HasAttr(base_input, "start_year") THEN RaisedException("AttributeError")
    ELSE IF ~HasAttr(base_input, "emissions_2030") THEN RaisedException("AttributeError")
    ELSE LET years == YearList(base_input.start_year, base_input.target_year)
             total_years == Len(years) - 1
             total_reduction == Sub(base_input.emissions_2030, base_input.target_2050)
         IN  Returned(
               [name |-> risk_scenario.name,
                risk_factor |-> N(risk_scenario.risk_factor),
                color |-> risk_scenario.color,
                total_area_needed |-> res.total_area_needed,
                forest_area_needed |-> res.forest_area_needed,
                coastal_area_needed |-> res.coastal_area_needed,
                years |-> years,
                area_trajectory |->
                    [i \in 1 .. Len(years) |->
                        Mul(res.total_area_needed, ScenarioProgress(i - 1, total_years))],
                emissions_trajectory |->
                    [i \in 1 .. Len(years) |->
                        Sub(base_input.emissions_2030,
                            Mul(total_reduction, ScenarioProgress(i - 1, total_years)))]])

(* lines 752-786: one pass of the loop for a selected scenario *)
RiskScenario(base_input, risk_scenario) ==
    RiskScenarioData(base_input, risk_scenario,
                     calculate_sequestration(WithRisk(base_input, risk_scenario.risk_factor)))

RECURSIVE RiskScenariosFrom(_, _, _, _)

(* line 776: scenarios_data.append(...), unless the pass raised *)
AppendScenario(base_input, selected, i, scenarios_data, data) ==
    IF data.raised # "" THEN data
    ELSE RiskScenariosFrom(base_input, selected, i + 1, Append(scenarios_data, data.value))

(* lines 748-786: the loop over RISK_SCENARIOS from the i-th entry on *)
RiskScenariosFrom(base_input, selected, i, scenarios_data) ==
    IF i > Len(RISK_SCENARIOS) THEN Returned(scenarios_data)
    ELSE IF RISK_SCENARIOS[i].name \notin selected
         THEN RiskScenariosFrom(base_input, selected, i + 1, scenarios_data)
         ELSE AppendScenario(base_input, selected, i, scenarios_data,
                             RiskScenario(base_input, RISK_SCENARIOS[i]))

(* selected_scenarios is None or a list of names, kept as Some(set) *)
SelectedScenarios(selected_scenarios) ==
    IF selected_scenarios = None
    THEN {"Optimistic", "Moderate", "Pessimistic"}
    ELSE selected_scenarios[1]

(* lines 793-798: MultiRiskChartData(...), unless the roadmap raised *)
MultiRiskChartData(base_input, scenarios_data, roadmap_data) ==
    IF roadmap_data.raised # "" THEN roadmap_data
    ELSE Returned([scenarios |-> scenarios_data,
                   roadmap |-> roadmap_data.value,
                   current_forest |-> base_input.forest_area_available,
                   current_coastal |-> base_input.coastal_area_available])

(* lines 788-798: the moderate result, its roadmap and the return *)
MultiRiskRoadmap(base_input, scenarios_data, moderate_result) ==
    IF HasRaised(moderate_result) THEN RaisedException("ZeroDivisionError")
    ELSE MultiRiskChartData(base_input, scenarios_data,
                            calculate_net_zero_roadmap(base_input, moderate_result))

(* lines 788-798, once the loop has ended *)
MultiRiskAfterLoop(base_input, scenarios_data) ==
    IF scenarios_data.raised # "" THEN scenarios_data
    ELSE MultiRiskRoadmap(base_input, scenarios_data.value,
                          calculate_sequestration(WithRisk(base_input, 20)))

generate_multi_risk_data(base_input, selected_scenarios) ==
    MultiRiskAfterLoop(base_input,
        RiskScenariosFrom(base_input, SelectedScenarios(selected_scenarios), 1, <<>>))

MultiRiskInputs ==
    {MakeInput(iy, py, ty, 20, 30, 10, sp, fa, 1000000, st, 50, FALSE, rf, dr) :
        iy \in {TargetYearMin, TargetYearMin + 1},
        py \in {TargetYearMin, TargetYearMin + 1},
        ty \in {TargetYearMin, TargetYearMin + 1},
        sp \in {0, 60}, fa \in AreaValues, st \in {"mature", "mixed"},
        rf \in {0, 20}, dr \in {0, 10}}

MultiRiskSelections ==
    {None, Some({}), Some({"Moderate"}), Some({"Optimistic", "Pessimistic"})}

InitMultiRisk ==
    /\ input \in MultiRiskInputs
    /\ pc = "ready"
    /\ loc \in {[selected_scenarios |-> s] : s \in MultiRiskSelections}
    /\ result = NoValue
    /\ emissions = NoValue

MultiRiskCall ==
    /\ pc = "ready"
    /\ result' = generate_multi_risk_data(input, loc.selected_scenarios)
    /\ pc' = IF result'.raised = "" THEN "done" ELSE "raised"
    /\ UNCHANGED <<input, loc, emissions>>

NextMultiRisk == MultiRiskCall

SpecMultiRisk == InitMultiRisk /\ [][NextMultiRisk]_vars

-----------------------------------------------------------------------------
(* Claims about the multi-risk data, checked under SpecMultiRisk *)

MultiRiskFinished == pc \in {"done", "raised"}

C20_ScenarioOf(i) == calculate_sequestration(WithRisk(input, RISK_SCENARIOS[i].risk_factor))

(* C20: for any valid input, generate_multi_risk_data with the default     *)
(* selection returns exactly three scenarios, in the order of risk 0, 20   *)
(* and 40 percent, each carrying the total, forest and coastal area that   *)
(* calculate_sequestration gives for that risk factor, and one roadmap.    *)
C20_ThreeScenarios ==
    (MultiRiskFinished /\ FieldValid(input) /\ loc.selected_scenarios = None) =>
        /\ result.raised = ""
        /\ Len(result.value.scenarios) = 3
        /\ \A i \in 1 .. 3 :
              /\ result.value.scenarios[i].risk_factor = N(RISK_SCENARIOS[i].risk_factor)
              /\ result.value.scenarios[i].total_area_needed = C20_ScenarioOf(i).total_area_needed
              /\ result.value.scenarios[i].forest_area_needed = C20_ScenarioOf(i).forest_area_needed
              /\ result.value.scenarios[i].coastal_area_needed = C20_ScenarioOf(i).coastal_area_needed
        /\ <<RISK_SCENARIOS[1].risk_factor, RISK_SCENARIOS[2].risk_factor,
             RISK_SCENARIOS[3].risk_factor>> = <<0, 20, 40>>
        /\ "roadmap" \in DOMAIN result.value

-----------------------------------------------------------------------------
(* The net-zero roadmap alone: calculate_net_zero_roadmap on an input and  *)
(* the moderate result computed for it (lines 788-791)                     *)

InitRoadmap ==
    /\ input \in MultiRiskInputs
    /\ pc = "ready"
    /\ loc = NoValue
    /\ result = NoValue
    /\ emissions = NoValue

(* lines 789-790: the result_moderate argument *)
RoadmapBaseline ==
    /\ pc = "ready"
    /\ loc' = [result_moderate |-> calculate_sequestration(WithRisk(input, 20))]
    /\ pc' = "baseline"
    /\ UNCHANGED <<input, result, emissions>>

RoadmapCall ==
    /\ pc = "baseline"
    /\ result' = calculate_net_zero_roadmap(input, loc.result_moderate)
    /\ pc' = IF result'.raised # "" THEN "raised" ELSE "done"
    /\ UNCHANGED <<input, loc, emissions>>

NextRoadmap == RoadmapBaseline \/ RoadmapCall

SpecRoadmap == InitRoadmap /\ [][NextRoadmap]_vars

-----------------------------------------------------------------------------
(* Claims about the roadmap, checked under SpecRoadmap *)

RoadmapFinished == pc \in {"done", "raised"}

C21_PointBalanced(p) ==
    /\ p.net_balance = Add(Add(Add(p.emissions, p.existing_sink), p.new_sink), p.other_mitigation)
    /\ Leq(p.existing_sink, N(0))
    /\ Leq(p.new_sink, N(0))
    /\ Leq(p.other_mitigation, N(0))

(* C21: for any valid input and baseline result, calculate_net_zero_roadmap *)
(* returns a RoadmapData with one point per year of its horizon, and in     *)
(* every point net_balance = emissions + existing_sink + new_sink +         *)
(* other_mitigation with the three sinks <= 0.                              *)
C21_RoadmapBalance ==
    (RoadmapFinished /\ FieldValid(input) /\ ~HasRaised(loc.result_moderate)) =>
        /\ result.raised = ""
        /\ Len(result.value.points) = Len(result.value.years)
        /\ \A i \in 1 .. Len(result.value.points) :
              /\ result.value.points[i].year = result.value.years[i]
              /\ C21_PointBalanced(result.value.points[i])

-----------------------------------------------------------------------------
(* The roadmap's planting window (lines 856-860 and 899-900), statements   *)
(* that follow the failing import                                          *)

RoadmapPlantingStart == 2025

RoadmapPlantingEnd == 2045

(* annual_planting_area = total_area_needed / planting_years *)
RoadmapAnnualPlantingArea(total_area_needed) ==
    LET planting_years == RoadmapPlantingEnd - RoadmapPlantingStart
    IN  IF planting_years > 0 THEN Div(total_area_needed, N(planting_years)) ELSE N(0)

(* the plant_year values of range(planting_start_year, min(year + 1,       *)
(* planting_end_year + 1)) that pass the test plant_year <= year           *)
RoadmapCohortYears(year) ==
    {plant_year \in RoadmapPlantingStart ..
                    ((IF year + 1 < RoadmapPlantingEnd + 1 THEN year + 1
                      ELSE RoadmapPlantingEnd + 1) - 1) : plant_year <= year}

C26_PlantedArea ==
    Mul(RoadmapAnnualPlantingArea(loc.result_moderate.total_area_needed),
        N(Cardinality(RoadmapCohortYears(RoadmapPlantingEnd))))

(* C26: in the roadmap the areas of all planted cohorts add up to the      *)
(* baseline result's total_area_needed: the per-cohort area times the      *)
(* number of cohort years that contribute at the end of the planting       *)
(* window equals total_area_needed.                                        *)
C26_CohortAreasAddUp ==
    (RoadmapFinished /\ FieldValid(input) /\ ~HasRaised(loc.result_moderate)) =>
        /\ result.raised = ""
        /\ C26_PlantedArea = loc.result_moderate.total_area_needed

-----------------------------------------------------------------------------
(* Further claims about the chart data, checked under SpecCharts *)

(* the number of years before the projection, and of projected years *)
NominalYears == loc.planting.nominal_years

ProjectedYears == Len(NewPlanting.years) - NominalYears

(* cumulative existing plus cumulative new sequestration has reached the   *)
(* target at the i-th year of the series, i >= NominalYears                *)
ReachedAt(i) ==
    Geq(Add(loc.planting.cumulative_existing[NominalYears],
            loc.planting.cumulative_new_seq[i]),
        NewPlanting.target_emission_reduction)

(* C22: the projection past target_year happens only if the target is not  *)
(* achieved at target_year, appends one year at a time, stops at the first *)
(* projected year in which cumulative existing plus cumulative new         *)
(* sequestration reaches target_emission_reduction, and never appends more *)
(* than 50 years; if the gap is still open after 50 projected years the    *)
(* result has is_target_achieved = false and target_reached_year = None.   *)
C22_ProjectionBounded ==
    ChartsDone =>
        /\ ProjectedYears >= 0 /\ ProjectedYears <= 50
        /\ ProjectedYears > 0 <=> ~ReachedAt(NominalYears)
        /\ \A k \in 1 .. ProjectedYears :
              NewPlanting.years[NominalYears + k] = input.target_year + k
        /\ \A k \in 1 .. (ProjectedYears - 1) : ~ReachedAt(NominalYears + k)
        /\ (ProjectedYears > 0 /\ ProjectedYears < 50) => ReachedAt(Len(NewPlanting.years))
        /\ ~ReachedAt(Len(NewPlanting.years)) =>
              /\ ProjectedYears = 50
              /\ ~NewPlanting.is_target_achieved
              /\ NewPlanting.target_reached_year = None

C22_Witness ==
    /\ ChartsDone
    /\ ProjectedYears = 50
    /\ ~ReachedAt(Len(NewPlanting.years))
    /\ ~NewPlanting.is_target_achieved
    /\ NewPlanting.target_reached_year = None

-----------------------------------------------------------------------------
(* The loop of calculate_sequestration against the closed-form series,     *)
(* checked under Spec                                                      *)

(* the series for the years of iterations 0 .. n, on the input's areas and *)
(* rates and on the loop's activity factor and degradation rate            *)
C23_Series(n) ==
    calculate_existing_forest_sequestration_series(
        input.forest_area_available, input.coastal_area_available,
        input.forest_rate, input.coastal_rate,
        loc.existing_factor, YearList(input.initial_year, input.initial_year + n),
        loc.degradation_rate_decimal,
        input.include_below_ground, input.root_to_shoot_ratio, input.risk_factor).value

C23_Iteration == pc = "loop" /\ pc' = "loop" /\ loc'.iterations = loc.iterations + 1

(* C23: at iteration n of the loop of calculate_sequestration the          *)
(* absorption credit added is 1e6 times the n-th entry of                  *)
(* calculate_existing_forest_sequestration_series for the same areas,      *)
(* rates, activity factor and degradation rate, and the sink potential is  *)
(* (existing base) * (1 - degradation_rate)^n whatever the activity factor.*)
C23_LoopMatchesSeries ==
    [][C23_Iteration =>
          /\ Sub(loc'.total_existing_absorption_tonnes, loc.total_existing_absorption_tonnes)
                = Mul(N(TonnesPerMt), C23_Series(loc.iterations)[loc.iterations + 1])
          /\ AnnualSinkPotential(loc)
                = Mul(Add(loc.forest_existing_base, loc.coastal_existing_base),
                      Pow(Sub(N(1), loc.degradation_rate_decimal), loc.iterations))]_vars

C23_Witness ==
    /\ pc = "loop"
    /\ loc.iterations >= 3
    /\ Gt(loc.existing_factor, N(0)) /\ Lt(loc.existing_factor, N(1))
    /\ Gt(loc.degradation_rate_decimal, N(0))
    /\ Gt(input.risk_factor, N(0))
    /\ input.include_below_ground
    /\ Gt(input.forest_area_available, N(0)) /\ Gt(input.coastal_area_available, N(0))
    /\ Gt(loc.total_existing_absorption_tonnes, N(0))

-----------------------------------------------------------------------------
(* The request handler: calculate_sequestration, then                      *)
(* generate_all_chart_data, on the same input (main.py, lines 153-176).    *)
(* existing_forest_status is a str field without validation.               *)

HandlerStatusValues == StatusValues \cup {"unknown"}

HandlerInputs ==
    {MakeInput(TargetYearMin, TargetYearMin, ty, 20, 30, 10, sp, fa, 1000000, st, 50, bg, rf, dr) :
        ty \in {TargetYearMin, TargetYearMin + 1},
        sp \in {0, 60}, fa \in AreaValues, st \in HandlerStatusValues,
        bg \in BOOLEAN, rf \in {0, 20}, dr \in {0, 10}}

InitHandler ==
    /\ input \in HandlerInputs
    /\ pc = "ready"
    /\ loc = NoValue
    /\ result = NoValue
    /\ emissions = NoValue

(* main.py line 175; loc keeps the locals of the call at its return *)
HandlerCalculate ==
    /\ pc = "ready"
    /\ loc' = RunLoop(CalcBeginLocals(input))
    /\ result' = [result |-> CalcResult(input, loc'), chart_data |-> NoValue]
    /\ pc' = "calculated"
    /\ UNCHANGED <<input, emissions>>

(* the chart data joins the result, or its exception ends the request *)
HandlerChartData(res, charts) ==
    IF charts.raised # "" THEN charts
    ELSE Returned([res EXCEPT !.chart_data = charts.value])

(* main.py line 176 *)
HandlerCharts ==
    /\ pc = "calculated"
    /\ result' = HandlerChartData(result, generate_all_chart_data(input))
    /\ pc' = IF result'.raised # "" THEN "raised" ELSE "done"
    /\ UNCHANGED <<input, loc, emissions>>

NextHandler == HandlerCalculate \/ HandlerCharts

SpecHandler == InitHandler /\ [][NextHandler]_vars

-----------------------------------------------------------------------------
(* Claims about the handler's two calls, checked under SpecHandler *)

HandlerDone == pc = "done"

(* C24: calculate_sequestration and generate_all_chart_data apply the same *)
(* activity factor to the existing ecosystem for every value of            *)
(* existing_forest_status, strings that are none of 'mature', 'mixed' and  *)
(* 'active' included.                                                      *)
C24_SameActivityFactor ==
    HandlerDone =>
        loc.existing_factor =
            result.value.chart_data.existing_forest_sequestration.activity_factor

-----------------------------------------------------------------------------
(* The chart's existing sink against the calculator's credit, checked      *)
(* under SpecCharts                                                        *)

(* the existing-absorption credit of calculate_sequestration (line 499     *)
(* calls it on the same input), in tonnes                                  *)
C25_Credit == RunLoop(CalcBeginLocals(input)).total_existing_absorption_tonnes

(* the chart's cumulative existing sequestration at target_year, in Mt *)
C25_ChartCumulativeExisting == loc.planting.cumulative_existing[NominalYears]

(* C25: for the recognised statuses, the new-planting chart's cumulative   *)
(* existing sequestration at target_year (Mt) times 1e6 equals the         *)
(* existing-absorption credit that calculate_sequestration subtracts from  *)
(* the sequestration target for the same input.                            *)
C25_ChartMatchesCredit ==
    (ChartsDone /\ input.existing_forest_status \in DOMAIN EXISTING_FOREST_STATUS_OPTIONS) =>
        Mul(C25_ChartCumulativeExisting, N(TonnesPerMt)) = C25_Credit

-----------------------------------------------------------------------------
(* Consistency of the returned new-planting chart, checked under           *)
(* SpecCharts                                                              *)

LastGap == Last(NewPlanting.cumulative_sequestration_gap)

NetZeroBalance == result.value.net_zero_balance

(* C28: all per-year series of one chart have the length of that chart's   *)
(* years list, also after projection years were appended: in the           *)
(* new-planting chart (annual_planting_area, cumulative_planted_area,      *)
(* cumulative_sequestration_gap, annual_new_sequestration_mt) and in the   *)
(* net-zero balance chart (gross_emissions, existing_forest_sequestration, *)
(* new_planting_sequestration, net_balance).                               *)
C28_SeriesAligned ==
    ChartsDone =>
        /\ \A series \in {NewPlanting.annual_planting_area,
                          NewPlanting.cumulative_planted_area,
                          NewPlanting.cumulative_sequestration_gap,
                          NewPlanting.annual_new_sequestration_mt} :
              Len(series) = Len(NewPlanting.years)
        /\ \A series \in {NetZeroBalance.gross_emissions,
                          NetZeroBalance.existing_forest_sequestration,
                          NetZeroBalance.new_planting_sequestration,
                          NetZeroBalance.net_balance} :
              Len(series) = Len(NetZeroBalance.years)
        /\ NetZeroBalance.years = NewPlanting.years

C28_Witness ==
    /\ ChartsDone
    /\ ProjectedYears >= 2
    /\ Len(NewPlanting.years) = NominalYears + ProjectedYears
    /\ Len(NewPlanting.annual_planting_area) = Len(NewPlanting.years)
    /\ Len(NetZeroBalance.net_balance) = Len(NewPlanting.years)

Gap == NewPlanting.cumulative_sequestration_gap

(* C29: for inputs with a finite total_area_needed, the new-planting       *)
(* chart's cumulative_sequestration_gap is non-negative and does not       *)
(* increase from a year to the next, across the base years and the         *)
(* projected years.                                                        *)
C29_GapShrinks ==
    (ChartsDone /\ IsFinite(loc.planting.main_res.total_area_needed)) =>
        /\ \A i \in 1 .. Len(Gap) : Geq(Gap[i], N(0))
        /\ \A i \in 1 .. (Len(Gap) - 1) : Leq(Gap[i + 1], Gap[i])

C29_Witness ==
    /\ ChartsDone
    /\ IsFinite(loc.planting.main_res.total_area_needed)
    /\ NominalYears >= 2
    /\ ProjectedYears >= 2
    /\ Lt(Gap[2], Gap[1])
    /\ Gt(Gap[NominalYears + 1], N(0))
    /\ Lt(Gap[Len(Gap)], Gap[NominalYears + 1])

-----------------------------------------------------------------------------
(* The area needed under rising risk, checked under Spec *)

(* total_area_needed of the same input at another risk factor *)
C30_AreaAtRisk(rf) == calculate_sequestration(WithRisk(input, rf)).total_area_needed

(* the risk levels of RISK_SCENARIOS above the lowest *)
C30_HigherRisks == {RISK_SCENARIOS[i].risk_factor : i \in 2 .. Len(RISK_SCENARIOS)}

=============================================================================
